---- MODULE Spec2Model ----
(***************************************************************************)
(* Model of the filter evaluation engine (src/src/filters) and of the      *)
(* analysis orchestration (src/src/analysis/company_analyzer.py).          *)
(*                                                                         *)
(* Numbers: a float is modelled exactly, as a reduced fraction, or as one  *)
(* of the IEEE special values the pandas / numpy arithmetic of the source  *)
(* produces (nan, +inf, -inf).  A coefficient of variation (std / mean) is *)
(* kept as the signed square of its value ("surd"), since a square root    *)
(* has no fraction.  Ratio fields and thresholds are in hundredths.        *)
(***************************************************************************)
EXTENDS Integers, Sequences, FiniteSets, TLC

VARIABLES
    profile_response,  \* what the provider answers to the profile request
    income_response,   \* what the provider answers to the income-statement request
    filters,           \* the filters argument of analyze_company
    results,           \* what analyze_company returned (or raised)
    income_df,         \* the table handed to a Filter operation
    filter_obj,        \* the Filter a Filter operation was called on
    filter_out,        \* what that Filter operation returned (or raised)
    catalogue,         \* the module-level dict AVAILABLE_FILTERS of the process
    default_filters,   \* the module-level list DEFAULT_FILTERS of the process
    calls,             \* the invocations of analyze_company that share them
    notebook           \* a call of compute_quarterly_metric_by_key: arguments and result

vars == <<profile_response, income_response, filters, results,
          income_df, filter_obj, filter_out, catalogue, default_filters, calls,
          notebook>>

\* what every invocation of the process shares, and the invocations
shared == <<catalogue, default_filters, calls>>

(***************************************************************************)
(* Bounds of the model.                                                    *)
(***************************************************************************)
MaxQuarters == 3
MaxRequest == 3
ExtraQuarters == 3
MaxCells == 3
MaxN == 3

(***************************************************************************)
(* Python values.                                                          *)
(***************************************************************************)
\* None where a float is expected, and None where a string is expected
None == [k |-> "None", n |-> 0, d |-> 1]

NoneStr == "<None>"

(***************************************************************************)
(* float arithmetic                                                        *)
(***************************************************************************)
Abs(x) == IF x < 0 THEN -x ELSE x

Sign(x) == IF x < 0 THEN -1 ELSE IF x > 0 THEN 1 ELSE 0

RECURSIVE GCD(_, _)
GCD(a, b) == IF b = 0 THEN a ELSE GCD(b, a % b)

NaN == [k |-> "nan", n |-> 0, d |-> 1]

Inf(s) == [k |-> "inf", n |-> s, d |-> 1]

\* the fraction n / d (d # 0), reduced, with a positive denominator
Rat(n, d) ==
    LET g == GCD(Abs(n), Abs(d))
        s == IF d < 0 THEN -1 ELSE 1
    IN  [k |-> "num", n |-> (s * n) \div g, d |-> (s * d) \div g]

\* the signed square root of |n / d|, with the sign of n / d
Surd(n, d) ==
    LET r == Rat(n, d)
    IN  [k |-> "surd", n |-> r.n, d |-> r.d]

IsFinite(a) == a.k \in {"num", "surd"}

\* x + y of two floats
FAdd(a, b) ==
    IF a.k = "nan" \/ b.k = "nan" THEN NaN
    ELSE IF a.k = "inf" /\ b.k = "inf" THEN (IF a.n = b.n THEN a ELSE NaN)
    ELSE IF a.k = "inf" THEN a
    ELSE IF b.k = "inf" THEN b
    ELSE Rat(a.n * b.d + b.n * a.d, a.d * b.d)

\* x - y of two floats
FSub(a, b) ==
    FAdd(a, IF b.k = "nan" THEN NaN ELSE [b EXCEPT !.n = -b.n])

\* x * y of two finite fractions
FMul(a, b) == Rat(a.n * b.n, a.d * b.d)

\* x / y of two floats, as numpy divides float64 (no exception on a zero divisor)
FDiv(a, b) ==
    IF a.k = "nan" \/ b.k = "nan" THEN NaN
    ELSE IF a.k = "inf" THEN (IF b.k = "inf" THEN NaN
                              ELSE Inf(IF b.n < 0 THEN -a.n ELSE a.n))
    ELSE IF b.k = "inf" THEN Rat(0, 1)
    ELSE IF b.n = 0 THEN (IF a.n = 0 THEN NaN ELSE Inf(Sign(a.n)))
    ELSE Rat(a.n * b.d, a.d * b.n)

\* sign(x) * x * x of a finite float, a fraction: x <= y iff SqOf(x) <= SqOf(y)
SqOf(a) ==
    IF a.k = "surd" THEN Rat(a.n, a.d)
    ELSE Rat(Sign(a.n) * a.n * a.n, a.d * a.d)

\* x < y of two floats (False when either is nan)
FLt(a, b) ==
    IF a.k = "nan" \/ b.k = "nan" THEN FALSE
    ELSE IF a.k = "inf" THEN a.n < 0 /\ ~(b.k = "inf" /\ b.n < 0)
    ELSE IF b.k = "inf" THEN b.n > 0
    ELSE IF a.k = "num" /\ b.k = "num" THEN a.n * b.d < b.n * a.d
    ELSE SqOf(a).n * SqOf(b).d < SqOf(b).n * SqOf(a).d

\* x == y of two floats (False when either is nan)
FEq(a, b) == a.k # "nan" /\ b.k # "nan" /\ ~FLt(a, b) /\ ~FLt(b, a)

FLe(a, b) == FLt(a, b) \/ FEq(a, b)

FGt(a, b) == FLt(b, a)

FGe(a, b) == FLe(b, a)

(***************************************************************************)
(* Quarterly records and the pandas table built from them.                 *)
(***************************************************************************)
RatioFields == {"grossProfitRatio", "netIncomeRatio"}

AmountFields == {"revenue", "grossProfit", "operatingIncome", "interestExpense",
                 "sellingGeneralAndAdministrativeExpenses",
                 "researchAndDevelopmentExpenses", "depreciationAndAmortization"}

LabelFields == {"calendarYear", "period"}

Fields == RatioFields \cup AmountFields \cup LabelFields

\* a quarter with every field the filters read
QFull ==
    [revenue |-> 4, grossProfit |-> 2, operatingIncome |-> 2, interestExpense |-> 1,
     sellingGeneralAndAdministrativeExpenses |-> 1,
     researchAndDevelopmentExpenses |-> 1, depreciationAndAmortization |-> 1,
     grossProfitRatio |-> 50, netIncomeRatio |-> 25,
     calendarYear |-> "2023", period |-> "Q1"]

\* a later quarter with other amounts
QNext ==
    [revenue |-> 5, grossProfit |-> 4, operatingIncome |-> 1, interestExpense |-> 0,
     sellingGeneralAndAdministrativeExpenses |-> 1,
     researchAndDevelopmentExpenses |-> 0, depreciationAndAmortization |-> 2,
     grossProfitRatio |-> 30, netIncomeRatio |-> 15,
     calendarYear |-> "2023", period |-> "Q2"]

\* a quarter whose denominator fields are present and exactly zero
QZeroDen ==
    [revenue |-> 0, grossProfit |-> 0, operatingIncome |-> 0, interestExpense |-> 1,
     sellingGeneralAndAdministrativeExpenses |-> 1,
     researchAndDevelopmentExpenses |-> 0, depreciationAndAmortization |-> 1,
     grossProfitRatio |-> 0, netIncomeRatio |-> 0,
     calendarYear |-> "2023", period |-> "Q3"]

\* a dict without the keys ks
WithoutKeys(q, ks) == [f \in (DOMAIN q) \ ks |-> q[f]]

\* a quarter that lacks the denominator fields entirely
QNoDen ==
    WithoutKeys([QFull EXCEPT !.grossProfitRatio = 40, !.netIncomeRatio = 20,
                              !.period = "Q4"],
                {"revenue", "grossProfit", "operatingIncome"})

\* a quarter that lacks calendarYear
QNoYear == WithoutKeys([QFull EXCEPT !.revenue = 6], {"calendarYear"})

QuarterPool == {QFull, QNext, QZeroDen, QNoDen, QNoYear}

RECURSIVE SeqsUpTo(_, _)
SeqsUpTo(S, n) ==
    IF n = 0 THEN {<<>>}
    ELSE LET shorter == SeqsUpTo(S, n - 1)
         IN  shorter \cup {Append(s, x) : s \in {t \in shorter : Len(t) = n - 1}, x \in S}

\* pd.DataFrame(list of dicts): a column for every key some record has
DataFrame(records) ==
    [columns |-> {f \in Fields : \E i \in 1..Len(records) : f \in DOMAIN records[i]},
     rows |-> records]

\* pd.DataFrame([quarter]) of a row of df: the same columns, one row
RowFrame(df, i) == [columns |-> df.columns, rows |-> <<df.rows[i]>>]

\* one cell of a numeric column as a float (NaN where the record has no such key)
Cell(q, f) ==
    IF f \notin DOMAIN q THEN NaN
    ELSE IF f \in RatioFields THEN Rat(q[f], 100) ELSE Rat(q[f], 1)

\* income_df[f] of a column that exists
Col(df, f) == [i \in 1..Len(df.rows) |-> Cell(df.rows[i], f)]

Tables == {DataFrame(s) : s \in SeqsUpTo(QuarterPool, MaxQuarters)}

(***************************************************************************)
(* pandas / numpy reductions                                               *)
(***************************************************************************)
RECURSIVE SumSeq(_)
SumSeq(s) == IF s = <<>> THEN Rat(0, 1) ELSE FAdd(Head(s), SumSeq(Tail(s)))

IsNaN(x) == x.k = "nan"

DropNa(s) == SelectSeq(s, LAMBDA x : ~IsNaN(x))

\* Series.mean(): nan cells are skipped; nan when nothing is left
SeriesMean(s) ==
    LET t == DropNa(s)
    IN  IF t = <<>> THEN NaN ELSE FDiv(SumSeq(t), Rat(Len(t), 1))

\* np.mean(array): nothing is skipped; nan for an empty array
NpMean(s) == IF s = <<>> THEN NaN ELSE FDiv(SumSeq(s), Rat(Len(s), 1))

\* a / b of two Series, cell by cell
SeriesDiv(a, b) == [i \in 1..Len(a) |-> FDiv(a[i], b[i])]

\* Series.var() (ddof = 1): nan cells are skipped
SeriesVar(s) ==
    LET t == DropNa(s)
        m == SeriesMean(s)
        dev == [i \in 1..Len(t) |-> FMul(FSub(t[i], m), FSub(t[i], m))]
    IN  IF Len(t) < 2 \/ \E i \in 1..Len(t) : ~IsFinite(t[i]) THEN NaN
        ELSE FDiv(SumSeq(dev), Rat(Len(t) - 1, 1))

\* Series.std() / Series.mean(), as a signed square
StdOverMean(s) ==
    LET v == SeriesVar(s)
        m == SeriesMean(s)
    IN  IF IsNaN(v) \/ IsNaN(m) \/ ~IsFinite(m) THEN NaN
        ELSE IF m.n = 0 THEN (IF v.n = 0 THEN NaN ELSE Inf(1))
        ELSE Surd(Sign(m.n) * v.n * m.d * m.d, v.d * m.n * m.n)

\* the rates of change taken from the last quarter back to the first
GrowthRatesBackwards(r) ==
    [i \in 1..(IF Len(r) = 0 THEN 0 ELSE Len(r) - 1) |->
        FDiv(FSub(r[Len(r) - i], r[Len(r) - i + 1]), r[Len(r) - i + 1])]

\* np.diff(revenues) / revenues[:-1]
GrowthRates(r) ==
    [i \in 1..(IF Len(r) = 0 THEN 0 ELSE Len(r) - 1) |-> FDiv(FSub(r[i + 1], r[i]), r[i])]

(***************************************************************************)
(* base.py: Classification and FinancialFilter                             *)
(***************************************************************************)
Classification(min_value, max_value, description) ==
    [min_value |-> min_value, max_value |-> max_value, description |-> description]

\* Classification.contains
contains(c, value) ==
    IF c.min_value # None /\ FLt(value, c.min_value) THEN FALSE
    ELSE IF c.max_value # None /\ FGt(value, c.max_value) THEN FALSE
    ELSE TRUE

\* the fields of a FinancialFilter; rule names the subclass's calculate
FinancialFilter(cls, name, description, threshold, comparison, threshold_text, guidelines, classifications, rule) ==
    [cls |-> cls, name |-> name, description |-> description,
     threshold |-> threshold, comparison |-> comparison,
     threshold_text |-> threshold_text, guidelines |-> guidelines,
     classifications |-> classifications, rule |-> rule]

\* passes_threshold with ">" and "<" true at equality
passes_threshold_inclusive(f, value) ==
    IF f.threshold = None \/ f.comparison = NoneStr THEN TRUE
    ELSE IF f.comparison = ">=" THEN FGe(value, f.threshold)
    ELSE IF f.comparison = "<=" THEN FLe(value, f.threshold)
    ELSE IF f.comparison = ">" THEN FGe(value, f.threshold)
    ELSE IF f.comparison = "<" THEN FLe(value, f.threshold)
    ELSE TRUE

\* FinancialFilter.passes_threshold
passes_threshold(f, value) ==
    IF f.threshold = None \/ f.comparison = NoneStr THEN TRUE
    ELSE IF f.comparison = ">=" THEN FGe(value, f.threshold)
    ELSE IF f.comparison = "<=" THEN FLe(value, f.threshold)
    ELSE IF f.comparison = ">" THEN FGt(value, f.threshold)
    ELSE IF f.comparison = "<" THEN FLt(value, f.threshold)
    ELSE TRUE

\* the last range that contains the value
RECURSIVE LastContaining(_, _)
LastContaining(cs, value) ==
    IF cs = <<>> THEN NoneStr
    ELSE IF contains(cs[Len(cs)], value) THEN cs[Len(cs)].description
    ELSE LastContaining(SubSeq(cs, 1, Len(cs) - 1), value)

\* FinancialFilter.get_classification: the first range that contains the value
RECURSIVE FirstContaining(_, _)
FirstContaining(cs, value) ==
    IF cs = <<>> THEN NoneStr
    ELSE IF contains(Head(cs), value) THEN Head(cs).description
    ELSE FirstContaining(Tail(cs), value)

get_classification(f, value) == FirstContaining(f.classifications, value)

\* what a call returns, or the exception it raises
Returned(v) == [ok |-> TRUE, value |-> v]

Raised(exc) == [ok |-> FALSE, exc |-> exc]

\* the value of the column `field` in the newest quarter
LatestOfField(df, field) ==
    IF field \notin df.columns THEN Raised("KeyError")
    ELSE Returned(IF df.rows = <<>> THEN NaN ELSE Cell(df.rows[Len(df.rows)], field))

\* mean of the column `field`
MeanOfField(df, field) ==
    IF field \notin df.columns THEN Raised("KeyError")
    ELSE Returned(SeriesMean(Col(df, field)))

\* mean of the quarterly ratio num / den
MeanOfRatio(df, num, den) ==
    IF num \notin df.columns \/ den \notin df.columns THEN Raised("KeyError")
    ELSE Returned(SeriesMean(SeriesDiv(Col(df, num), Col(df, den))))

\* RevenueTrendFilter.calculate
RevenueTrend(df) ==
    IF "revenue" \notin df.columns THEN Raised("KeyError")
    ELSE Returned(NpMean(GrowthRates(Col(df, "revenue"))))

\* SGAConsistencyFilter.calculate
SGAConsistency(df) ==
    IF "sellingGeneralAndAdministrativeExpenses" \notin df.columns
       \/ "grossProfit" \notin df.columns
    THEN Raised("KeyError")
    ELSE Returned(StdOverMean(
             SeriesDiv(Col(df, "sellingGeneralAndAdministrativeExpenses"),
                       Col(df, "grossProfit"))))

\* filter.calculate(income_df), by the subclass of the filter
calculate(f, df) ==
    CASE f.rule.kind = "field" -> MeanOfField(df, f.rule.num)
      [] f.rule.kind = "ratio" -> MeanOfRatio(df, f.rule.num, f.rule.den)
      [] f.rule.kind = "trend" -> RevenueTrend(df)
      [] f.rule.kind = "cv" -> SGAConsistency(df)
      [] OTHER -> Raised("NotImplementedError")

Rule(kind, num, den) == [kind |-> kind, num |-> num, den |-> den]

\* "{threshold:.0%}" of a threshold that is a whole number of hundredths
Percent(t) == (t.n * 100) \div t.d

\* threshold_text or f"{comparison} {threshold:.0%}"
ThresholdDisplay(f) ==
    IF f.threshold_text # NoneStr /\ f.threshold_text # ""
    THEN <<f.threshold_text>>
    ELSE <<f.comparison, " ", Percent(f.threshold), "%">>

\* IndustryAdjustedInterestFilter.industry_thresholds
industry_thresholds ==
    [c \in {"Consumer Goods", "Financials", "Default"} |->
        CASE c = "Consumer Goods" -> Rat(15, 100)
          [] c = "Financials" -> Rat(30, 100)
          [] OTHER -> Rat(20, 100)]

\* get_result with the threshold of the entry "Consumer Goods"
IndustryResultConsumerGoods(f, value) ==
    LET threshold == industry_thresholds["Consumer Goods"]
    IN  [value |-> value, description |-> f.description,
         passes |-> FLe(value, threshold),
         threshold |-> <<"<= ", Percent(threshold), "%">>]

\* IndustryAdjustedInterestFilter.get_result, once calculate returned value
IndustryResult(f, value) ==
    LET threshold == industry_thresholds["Default"]
    IN  [value |-> value, description |-> f.description,
         passes |-> FLe(value, threshold),
         threshold |-> <<"<= ", Percent(threshold), "%">>]

\* get_result that tests the threshold for truth: a threshold of 0.0 counts as none
BaseResultTruthy(f, value) ==
    [value |-> value, description |-> f.description]
    @@ (IF f.threshold # None /\ f.threshold.n # 0
        THEN [passes |-> passes_threshold(f, value), threshold |-> ThresholdDisplay(f)]
        ELSE <<>>)
    @@ (IF f.classifications # <<>>
        THEN [classification |-> get_classification(f, value)]
        ELSE <<>>)
    @@ (IF f.guidelines # NoneStr /\ f.guidelines # ""
        THEN [guidelines |-> f.guidelines]
        ELSE <<>>)

\* FinancialFilter.get_result, once calculate returned value
BaseResult(f, value) ==
    [value |-> value, description |-> f.description]
    @@ (IF f.threshold # None
        THEN [passes |-> passes_threshold(f, value), threshold |-> ThresholdDisplay(f)]
        ELSE <<>>)
    @@ (IF f.classifications # <<>>
        THEN [classification |-> get_classification(f, value)]
        ELSE <<>>)
    @@ (IF f.guidelines # NoneStr /\ f.guidelines # ""
        THEN [guidelines |-> f.guidelines]
        ELSE <<>>)

\* filter.get_result(income_df): calculate's exception is not caught
get_result(f, df) ==
    LET c == calculate(f, df)
    IN  IF ~c.ok THEN c
        ELSE Returned(IF f.cls = "IndustryAdjustedInterestFilter"
                      THEN IndustryResult(f, c.value)
                      ELSE BaseResult(f, c.value))

\* the label of row i of df in get_quarterly_data: quarter.get(key, "") is the cell,
\* which is nan (true in a condition) where the record lacks a key other records have
RowGet(df, i, key) ==
    IF key \notin df.columns THEN ""
    ELSE IF key \in DOMAIN df.rows[i] THEN df.rows[i][key]
    ELSE "nan"

QuarterLabel(df, i) ==
    LET fiscal_year == RowGet(df, i, "calendarYear")
        period == RowGet(df, i, "period")
    IN  IF fiscal_year # "" /\ period # "" THEN <<fiscal_year, "-", period>>
        ELSE <<>>

\* filter.get_quarterly_data(income_df): the Series, or None after any exception
get_quarterly_data(f, df) ==
    LET point(i) == calculate(f, RowFrame(df, i))
    IN  IF \E i \in 1..Len(df.rows) : ~point(i).ok
        THEN [is_none |-> TRUE, points |-> <<>>]
        ELSE [is_none |-> FALSE,
              points |-> [i \in 1..Len(df.rows) |->
                             [label |-> QuarterLabel(df, i), value |-> point(i).value]]]

(***************************************************************************)
(* core_filters.py, additional_filters.py and the catalogue of __init__.py *)
(* (a guideline text is cut to its first words; the signs U+2265 and       *)
(* U+2264 of a threshold text are written >= and <=)                       *)
(***************************************************************************)
GrossProfitRatioFilter ==
    FinancialFilter("GrossProfitRatioFilter", "gross_profit_ratio",
        "Indicates pricing power and efficiency",
        Rat(40, 100), ">=", ">= 40%", "Average over the last 10 years",
        <<Classification(Rat(40, 100), None, "Durable competitive advantage"),
          Classification(Rat(20, 100), Rat(40, 100), "Highly-competitive industry"),
          Classification(None, Rat(20, 100), "Fiercely competitive industry")>>,
        Rule("field", "grossProfitRatio", ""))

SGARatioFilter ==
    FinancialFilter("SGARatioFilter", "sga_ratio",
        "Lower ratio indicates better operational efficiency",
        Rat(30, 100), "<=", "<= 30%", "Look for consistency",
        <<Classification(None, Rat(30, 100), "Excellent operational efficiency"),
          Classification(Rat(30, 100), Rat(80, 100), "Normal range (varies by industry)"),
          Classification(Rat(80, 100), None, "High overhead costs")>>,
        Rule("ratio", "sellingGeneralAndAdministrativeExpenses", "grossProfit"))

RDRatioFilter ==
    FinancialFilter("RDRatioFilter", "rd_ratio",
        "R&D investment relative to gross profit",
        None, NoneStr, NoneStr, "Buffett's view",
        <<Classification(None, Rat(10, 100), "Low R&D dependency - more stable advantage"),
          Classification(Rat(10, 100), Rat(20, 100), "Moderate R&D investment"),
          Classification(Rat(20, 100), None,
              "Heavy R&D investment - potential risk to long-term economics")>>,
        Rule("ratio", "researchAndDevelopmentExpenses", "grossProfit"))

DepreciationRatioFilter ==
    FinancialFilter("DepreciationRatioFilter", "depreciation_ratio",
        "Lower ratio suggests less capital-intensive business",
        Rat(10, 100), "<=", "<= 10%", "Companies with durable competitive advantages",
        <<Classification(None, Rat(10, 100),
              "Asset-light business with potential durable advantage"),
          Classification(Rat(10, 100), Rat(20, 100), "Moderate capital intensity"),
          Classification(Rat(20, 100), None,
              "Capital-intensive business (check industry context)")>>,
        Rule("ratio", "depreciationAndAmortization", "grossProfit"))

InterestRatioFilter ==
    FinancialFilter("InterestRatioFilter", "interest_ratio",
        "Lower ratio indicates less debt burden",
        None, NoneStr, NoneStr, "Varies significantly by industry",
        <<Classification(None, Rat(15, 100), "Strong position (typical for consumer goods)"),
          Classification(Rat(15, 100), Rat(30, 100), "Moderate interest burden"),
          Classification(Rat(30, 100), Rat(70, 100),
              "High interest burden (typical for financial services)"),
          Classification(Rat(70, 100), None,
              "Warning: Very high interest burden (risk of distress)")>>,
        Rule("ratio", "interestExpense", "operatingIncome"))

NetIncomeRatioFilter ==
    FinancialFilter("NetIncomeRatioFilter", "net_income_ratio",
        "Net earnings relative to gross profit",
        Rat(20, 100), ">", "> 20%", "Higher ratio compared to competitors",
        <<Classification(Rat(20, 100), None, "Durable competitive advantage"),
          Classification(Rat(10, 100), Rat(20, 100), "Gray area - requires further analysis"),
          Classification(None, Rat(10, 100),
              "Competitive industry without clear advantage")>>,
        Rule("field", "netIncomeRatio", ""))

RevenueTrendFilter ==
    FinancialFilter("RevenueTrendFilter", "revenue_trend",
        "Measures revenue growth trend over time",
        Rat(0, 100), ">", "Positive growth", NoneStr, <<>>,
        Rule("trend", "revenue", "revenue"))

OperatingMarginFilter ==
    FinancialFilter("OperatingMarginFilter", "operating_margin",
        "Operating profit as percentage of revenue",
        Rat(15, 100), ">=", ">= 15%", NoneStr, <<>>,
        Rule("ratio", "operatingIncome", "revenue"))

SGAConsistencyFilter ==
    FinancialFilter("SGAConsistencyFilter", "sga_consistency",
        "Measures consistency of SGA expenses relative to gross profit",
        Rat(25, 100), "<=", "<= 25% variation", NoneStr, <<>>,
        Rule("cv", "sellingGeneralAndAdministrativeExpenses", "grossProfit"))

IndustryAdjustedInterestFilter ==
    FinancialFilter("IndustryAdjustedInterestFilter", "industry_interest_ratio",
        "Interest to operating income ratio with industry-specific thresholds",
        None, NoneStr, NoneStr, NoneStr, <<>>,
        Rule("ratio", "interestExpense", "operatingIncome"))

\* the keys of AVAILABLE_FILTERS, in the order the dict holds them
AvailableKeys ==
    <<"gross_profit_ratio", "sga_ratio", "rd_ratio", "depreciation_ratio",
      "interest_ratio", "net_income_ratio", "revenue_trend", "operating_margin",
      "sga_consistency", "industry_interest">>

AvailableIds == {AvailableKeys[i] : i \in 1..Len(AvailableKeys)}

AVAILABLE_FILTERS ==
    [id \in AvailableIds |->
        CASE id = "gross_profit_ratio" -> GrossProfitRatioFilter
          [] id = "sga_ratio" -> SGARatioFilter
          [] id = "rd_ratio" -> RDRatioFilter
          [] id = "depreciation_ratio" -> DepreciationRatioFilter
          [] id = "interest_ratio" -> InterestRatioFilter
          [] id = "net_income_ratio" -> NetIncomeRatioFilter
          [] id = "revenue_trend" -> RevenueTrendFilter
          [] id = "operating_margin" -> OperatingMarginFilter
          [] id = "sga_consistency" -> SGAConsistencyFilter
          [] OTHER -> IndustryAdjustedInterestFilter]

DEFAULT_FILTERS ==
    <<"gross_profit_ratio", "sga_ratio", "rd_ratio", "depreciation_ratio",
      "interest_ratio", "net_income_ratio">>

(***************************************************************************)
(* api_utils.py: the two provider calls the orchestrator makes.  A         *)
(* response is the JSON body (a list or an object), or an exception of the *)
(* session (network error, timeout, body that is not JSON).                *)
(***************************************************************************)
EmptyDict == [x \in {} |-> 0]

JsonList(items) == [kind |-> "list", items |-> items]

JsonObject(d) == [kind |-> "object", items |-> <<d>>]

HttpException == [kind |-> "exception", items |-> <<>>]

\* FinancialModelingPrepAPI.get_company_profile: the first profile of a
\* non-empty list, else {}
get_company_profile(response) ==
    IF response.kind = "list" /\ response.items # <<>>
    THEN response.items[1]
    ELSE EmptyDict

\* FinancialModelingPrepAPI.get_income_statement: the body as it is, {} after
\* an exception
get_income_statement(response) ==
    IF response.kind = "exception" THEN JsonObject(EmptyDict) ELSE response

n_quarters == 40

\* seq[:n]
Take(seq, n) == SubSeq(seq, 1, IF Len(seq) < n THEN Len(seq) ELSE n)

\* seq[::-1]
Reverse(seq) == [i \in 1..Len(seq) |-> seq[Len(seq) + 1 - i]]

\* reversing first and slicing after: the oldest n_quarters records
ReverseThenSlice(seq) == Take(Reverse(seq), n_quarters)

\* [: self.n_quarters][::-1] of the newest-first list
SliceNewest(seq) == Reverse(Take(seq, n_quarters))

\* CompanyAnalyzer.get_company_data: a dict cannot be sliced
get_company_data(profile, income) ==
    LET company_profile == get_company_profile(profile)
        income_statement == get_income_statement(income)
    IN  IF income_statement.kind # "list" THEN Raised("TypeError")
        ELSE Returned([company_info |-> company_profile,
                       income_statement |-> SliceNewest(income_statement.items)])

(***************************************************************************)
(* A Python dict: its keys in insertion order, and the value of each.      *)
(***************************************************************************)
NewDict == [keys |-> <<>>, at |-> EmptyDict]

InDict(d, k) == \E i \in 1..Len(d.keys) : d.keys[i] = k

\* d[k] = v: a new key goes last, a key already there keeps its place
DictSet(d, k, v) ==
    [keys |-> IF InDict(d, k) THEN d.keys ELSE Append(d.keys, k),
     at |-> [x \in (DOMAIN d.at) \cup {k} |-> IF x = k THEN v ELSE d.at[x]]]

(***************************************************************************)
(* company_analyzer.py: CompanyAnalyzer.analyze_company                    *)
(***************************************************************************)
\* the argument filters: None, or a list of ids
NoFilters == [is_none |-> TRUE, ids |-> <<>>]

FilterList(ids) == [is_none |-> FALSE, ids |-> ids]

\* a loop turn without the membership test: the catalogue lookup raises
LoopBodyUnchecked(acc, filter_name, df) ==
    IF filter_name \notin DOMAIN AVAILABLE_FILTERS THEN Raised("KeyError")
    ELSE LET f == AVAILABLE_FILTERS[filter_name]
             filter_result == get_result(f, df)
             quarterly_data == get_quarterly_data(f, df)
         IN  IF ~filter_result.ok THEN filter_result
             ELSE Returned(
                    [acc EXCEPT
                       !.filters = DictSet(@, filter_name, filter_result.value),
                       !.quarterly_data =
                           IF quarterly_data.is_none THEN @
                           ELSE DictSet(@, filter_name, quarterly_data.points)])

\* one turn of the loop "for filter_name in filters", from the results so far
LoopBody(acc, filter_name, df) ==
    IF filter_name \notin DOMAIN AVAILABLE_FILTERS THEN Returned(acc)
    ELSE LET f == AVAILABLE_FILTERS[filter_name]
             filter_result == get_result(f, df)
             quarterly_data == get_quarterly_data(f, df)
         IN  IF ~filter_result.ok THEN filter_result
             ELSE Returned(
                    [acc EXCEPT
                       !.filters = DictSet(@, filter_name, filter_result.value),
                       !.quarterly_data =
                           IF quarterly_data.is_none THEN @
                           ELSE DictSet(@, filter_name, quarterly_data.points)])

\* the loop: an exception of a turn ends it
RECURSIVE FilterLoop(_, _, _)
\* after one turn: its exception leaves the loop, its dictionaries go on
NextTurn(turn, ids, df) ==
    IF ~turn.ok THEN turn ELSE FilterLoop(ids, df, turn.value)

FilterLoop(ids, df, acc) ==
    IF ids = <<>> THEN Returned(acc)
    ELSE NextTurn(LoopBody(acc, Head(ids), df), Tail(ids), df)

\* a loop over the catalogue that keeps the requested ids
IterationOrderOfCatalogue(ids) ==
    SelectSeq(<<"gross_profit_ratio", "sga_ratio", "rd_ratio", "depreciation_ratio",
                "interest_ratio", "net_income_ratio", "revenue_trend",
                "operating_margin", "sga_consistency", "industry_interest">>,
              LAMBDA k : \E i \in 1..Len(ids) : ids[i] = k)

\* the order in which the loop visits the requested ids: the list's own
IterationOrder(ids) == ids

\* the default list for every request without ids, the empty list included
FiltersOrDefault(request) ==
    IF request.is_none \/ request.ids = <<>> THEN DEFAULT_FILTERS ELSE request.ids

\* if filters is None: filters = DEFAULT_FILTERS
FiltersArgument(request) ==
    IF request.is_none THEN DEFAULT_FILTERS ELSE request.ids

analyze_company(profile, income, request) ==
    LET company_data == get_company_data(profile, income)
    IN  IF ~company_data.ok THEN company_data
        ELSE IF DOMAIN company_data.value = {}
        THEN Returned([error |-> "Company not found"])
        ELSE LET ids == FiltersArgument(request)
                 info == company_data.value.company_info
             IN  IF "companyName" \notin DOMAIN info \/ "sector" \notin DOMAIN info
                 THEN Raised("KeyError")
                 ELSE FilterLoop(IterationOrder(ids),
                                 DataFrame(company_data.value.income_statement),
                                 [company_name |-> info.companyName,
                                  sector |-> info.sector,
                                  filters |-> NewDict,
                                  quarterly_data |-> NewDict])

(***************************************************************************)
(* The orchestrator's behaviours (app.py): the page is idle, the user       *)
(* asks for an analysis, the result is shown, and the page runs again.     *)
(***************************************************************************)
Idle == [state |-> "idle"]

Done(outcome) == [state |-> "done", out |-> outcome]

ProfileTech == [companyName |-> "Microsoft Corporation", sector |-> "Technology"]

ProfileBank == [companyName |-> "JPMorgan Chase & Co.", sector |-> "Financials"]

ProfileConsumer == [companyName |-> "The Coca-Cola Company", sector |-> "Consumer Goods"]

ProfileResponses ==
    {HttpException, JsonList(<<>>), JsonList(<<ProfileTech>>), JsonList(<<ProfileBank>>),
     JsonList(<<ProfileConsumer>>)}

ErrorBody == [message |-> "Invalid API KEY"]

\* a quarter whose interest expense is a sixth of its operating income
QLowInterest == [QFull EXCEPT !.operatingIncome = 6, !.period = "Q2"]

StatementPool == {QFull, QNoDen, QLowInterest}

IncomeResponses ==
    {HttpException, JsonObject(ErrorBody)}
    \cup {JsonList(s) : s \in SeqsUpTo(StatementPool, MaxQuarters)}

RequestIds == {"sga_ratio", "gross_profit_ratio", "industry_interest", "not_a_real_filter"}

Requests == {NoFilters} \cup {FilterList(s) : s \in SeqsUpTo(RequestIds, MaxRequest)}

NoFilter == RevenueTrendFilter

\* compute_quarterly_metric_by_key has not been called
NoNotebookCall == [state |-> "idle"]

\* the two invocations that may be in progress at once
Invocations == {1, 2}

\* no invocation has begun
NoCalls == [p \in Invocations |-> [pc |-> "idle"]]

Init ==
    /\ profile_response \in ProfileResponses
    /\ income_response \in IncomeResponses
    /\ filters = NoFilters
    /\ results = Idle
    /\ income_df = DataFrame(<<>>)
    /\ filter_obj = NoFilter
    /\ filter_out = Idle
    /\ catalogue = AVAILABLE_FILTERS
    /\ default_filters = DEFAULT_FILTERS
    /\ calls = NoCalls
    /\ notebook = NoNotebookCall

\* the "Analyze Company" button: analyzer.analyze_company(company_input, selected)
AnalyzeCompany ==
    /\ results = Idle
    /\ \E request \in Requests :
          /\ filters' = request
          /\ results' = Done(analyze_company(profile_response, income_response, request))
    /\ UNCHANGED shared
    /\ UNCHANGED <<profile_response, income_response, income_df, filter_obj, filter_out>>
    /\ UNCHANGED notebook

\* the page runs again: nothing of the last analysis is kept
Rerun ==
    /\ results # Idle
    /\ results' = Idle
    /\ filters' = NoFilters
    /\ UNCHANGED shared
    /\ UNCHANGED <<profile_response, income_response, income_df, filter_obj, filter_out>>
    /\ UNCHANGED notebook

Next == AnalyzeCompany \/ Rerun

Spec == Init /\ [][Next]_vars

(***************************************************************************)
(* Properties of analyze_company                                           *)
(***************************************************************************)
Called == results.state = "done"

ReturnsResult == Called /\ results.out.ok /\ "filters" \in DOMAIN results.out.value

company_profile == get_company_profile(profile_response)

income_statement == get_income_statement(income_response)

\* the ids the analysis is asked for
RequestedIds == IF filters.is_none THEN DEFAULT_FILTERS ELSE filters.ids

IsKnown(id) == id \in AvailableIds

\* the source has nothing usable: no profile, or no quarterly records
NothingUsable ==
    \/ company_profile = EmptyDict
    \/ income_statement.kind # "list"
    \/ income_statement.items = <<>>

\* the source resolves the company: a profile and a list of quarterly records
Resolvable ==
    /\ company_profile # EmptyDict
    /\ income_statement.kind = "list"

\* the table the analysis builds
AnalysisTable == DataFrame(SliceNewest(income_statement.items))

\* C1: when the source returns nothing usable for the company, analyze_company
\* returns an error result with a non-empty message and no other field, and
\* does not raise.
C1_MissingCompanyYieldsError ==
    (Called /\ NothingUsable) =>
        /\ results.out.ok
        /\ DOMAIN results.out.value = {"error"}
        /\ results.out.value.error # ""

\* C2: the failure of one requested filter's calculate does not abort the
\* analysis: an AnalysisResult is returned, with the result of every requested
\* catalogued filter whose calculate succeeds.
C2_FilterFailureContained ==
    (/\ Called
     /\ Resolvable
     /\ \E i \in 1..Len(RequestedIds) :
           IsKnown(RequestedIds[i])
           /\ ~calculate(AVAILABLE_FILTERS[RequestedIds[i]], AnalysisTable).ok
     /\ \E i \in 1..Len(RequestedIds) :
           IsKnown(RequestedIds[i])
           /\ calculate(AVAILABLE_FILTERS[RequestedIds[i]], AnalysisTable).ok) =>
        /\ ReturnsResult
        /\ \A i \in 1..Len(RequestedIds) :
              LET id == RequestedIds[i]
              IN  (IsKnown(id) /\ calculate(AVAILABLE_FILTERS[id], AnalysisTable).ok) =>
                     /\ InDict(results.out.value.filters, id)
                     /\ results.out.value.filters.at[id]
                            = get_result(AVAILABLE_FILTERS[id], AnalysisTable).value

\* C3: an id that is not in the catalogue leaves no entry in filters or in
\* quarterly_data and raises nothing; a request of unknown ids only, for a
\* company the source resolves, yields an AnalysisResult with both mappings empty.
C3_UnknownIdsDropped ==
    /\ ReturnsResult =>
          /\ \A i \in 1..Len(results.out.value.filters.keys) :
                IsKnown(results.out.value.filters.keys[i])
          /\ \A i \in 1..Len(results.out.value.quarterly_data.keys) :
                IsKnown(results.out.value.quarterly_data.keys[i])
    /\ (Called /\ Resolvable /\ \A i \in 1..Len(RequestedIds) : ~IsKnown(RequestedIds[i])) =>
          /\ ReturnsResult
          /\ results.out.value.filters = NewDict
          /\ results.out.value.quarterly_data = NewDict

C3_Witness ==
    /\ ReturnsResult
    /\ Len(RequestedIds) >= 2
    /\ \A i \in 1..Len(RequestedIds) : ~IsKnown(RequestedIds[i])
    /\ AnalysisTable.rows # <<>>
    /\ results.out.value.filters.keys = <<>>

\* the ids of a list in the order of their first listing, each once
RECURSIVE FirstListings(_)
FirstListings(ids) ==
    IF ids = <<>> THEN <<>>
    ELSE LET rest == FirstListings(SubSeq(ids, 1, Len(ids) - 1))
             last == ids[Len(ids)]
         IN  IF \E i \in 1..Len(rest) : rest[i] = last THEN rest ELSE Append(rest, last)

\* C4: the keys of AnalysisResult.filters are in the order the caller listed
\* them, ids outside the catalogue removed (an id listed again keeps the place
\* of its first listing), whatever the order of the catalogue.
C4_FiltersInRequestOrder ==
    ReturnsResult =>
        results.out.value.filters.keys
            = FirstListings(SelectSeq(RequestedIds, IsKnown))

C4_Witness ==
    /\ ReturnsResult
    /\ ~filters.is_none
    /\ results.out.value.filters.keys = <<"sga_ratio", "gross_profit_ratio">>
    /\ \E i \in 1..Len(RequestedIds) : ~IsKnown(RequestedIds[i])

(***************************************************************************)
(* The operations of a Filter, each applied to a table: the catalogue's    *)
(* filters, and filters of a test subclass (the gross-profit rule with a   *)
(* threshold, a comparison and classification ranges of its own).          *)
(***************************************************************************)
GapRanges ==
    <<Classification(Rat(45, 100), None, "high"),
      Classification(None, Rat(30, 100), "low")>>

OverlappingRanges ==
    <<Classification(None, Rat(40, 100), "at most 40%"),
      Classification(Rat(30, 100), None, "at least 30%")>>

TestFilter(threshold, comparison, classifications) ==
    FinancialFilter("TestFilter", "test", "A filter of a test", threshold, comparison,
                    NoneStr, NoneStr, classifications,
                    Rule("field", "grossProfitRatio", ""))

TestFilters ==
    {TestFilter(t[1], t[2], c) :
        t \in ({None} \X {NoneStr, ">="})
              \cup ({Rat(40, 100)} \X {NoneStr, ">=", "<=", ">", "<", "=="}),
        c \in {<<>>, GapRanges, OverlappingRanges}}

CatalogueFilters == {AVAILABLE_FILTERS[id] : id \in AvailableIds}

Applied(op, outcome) == [state |-> "done", op |-> op, out |-> outcome]

\* four quarters with grossProfitRatio = 0.5, 0.45, 0.55, 0.40
ScenarioTable ==
    DataFrame(<<[QFull EXCEPT !.grossProfitRatio = 50, !.period = "Q1"],
                [QFull EXCEPT !.grossProfitRatio = 45, !.period = "Q2"],
                [QFull EXCEPT !.grossProfitRatio = 55, !.period = "Q3"],
                [QFull EXCEPT !.grossProfitRatio = 40, !.period = "Q4"]>>)

InitFilter ==
    /\ income_df \in Tables \cup {ScenarioTable}
    /\ filter_obj = NoFilter
    /\ filter_out = Idle
    /\ profile_response = HttpException
    /\ income_response = HttpException
    /\ filters = NoFilters
    /\ results = Idle
    /\ catalogue = AVAILABLE_FILTERS
    /\ default_filters = DEFAULT_FILTERS
    /\ calls = NoCalls
    /\ notebook = NoNotebookCall

Calculate ==
    /\ filter_out = Idle
    /\ \E f \in CatalogueFilters :
          /\ filter_obj' = f
          /\ filter_out' = Applied("calculate", calculate(f, income_df))
    /\ UNCHANGED shared
    /\ UNCHANGED <<profile_response, income_response, filters, results, income_df>>
    /\ UNCHANGED notebook

GetResult ==
    /\ filter_out = Idle
    /\ \E f \in CatalogueFilters \cup TestFilters :
          /\ filter_obj' = f
          /\ filter_out' = Applied("get_result", get_result(f, income_df))
    /\ UNCHANGED shared
    /\ UNCHANGED <<profile_response, income_response, filters, results, income_df>>
    /\ UNCHANGED notebook

GetQuarterlyData ==
    /\ filter_out = Idle
    /\ \E f \in CatalogueFilters :
          /\ filter_obj' = f
          /\ filter_out' = Applied("get_quarterly_data", get_quarterly_data(f, income_df))
    /\ UNCHANGED shared
    /\ UNCHANGED <<profile_response, income_response, filters, results, income_df>>
    /\ UNCHANGED notebook

NextFilter == Calculate \/ GetResult \/ GetQuarterlyData

SpecFilter == InitFilter /\ [][NextFilter]_vars

(***************************************************************************)
(* Properties of the Filter operations                                     *)
(***************************************************************************)
Applies(op) == filter_out.state = "done" /\ filter_out.op = op

\* how a float stands to a fraction t, in exact arithmetic
Cmp(v, t) ==
    LET lhs == IF v.k = "surd" THEN v.n * t.d * t.d ELSE v.n * t.d
        rhs == IF v.k = "surd" THEN Sign(t.n) * t.n * t.n * v.d ELSE t.n * v.d
    IN  CASE v.k = "nan" -> "unordered"
          [] v.k = "inf" -> (IF v.n < 0 THEN "lt" ELSE "gt")
          [] OTHER -> (IF lhs < rhs THEN "lt" ELSE IF lhs > rhs THEN "gt" ELSE "eq")

Compare(v, t, comparison) ==
    CASE comparison = ">=" -> Cmp(v, t) \in {"gt", "eq"}
      [] comparison = "<=" -> Cmp(v, t) \in {"lt", "eq"}
      [] comparison = ">" -> Cmp(v, t) = "gt"
      [] comparison = "<" -> Cmp(v, t) = "lt"

Comparisons == {">=", "<=", ">", "<"}

\* C5: for a Filter with a threshold and a comparison, the result's passes is
\* compare(calculate(table), threshold, comparison), for each of >=, <=, >, <
\* (>= and <= true at equality, > and < false at equality).
C5_PassesIsComparison ==
    (/\ Applies("get_result")
     /\ filter_out.out.ok
     /\ filter_obj.threshold # None
     /\ filter_obj.comparison \in Comparisons) =>
        LET value == calculate(filter_obj, income_df).value
        IN  /\ "passes" \in DOMAIN filter_out.out.value
            /\ filter_out.out.value.passes
                   = Compare(value, filter_obj.threshold, filter_obj.comparison)
            /\ Cmp(value, filter_obj.threshold) = "eq" =>
                   (filter_out.out.value.passes
                        <=> filter_obj.comparison \in {">=", "<="})

C5_Witness ==
    /\ Applies("get_result")
    /\ filter_out.out.ok
    /\ filter_obj.threshold # None
    /\ filter_obj.comparison = "<"
    /\ Cmp(filter_out.out.value.value, filter_obj.threshold) = "eq"
    /\ ~filter_out.out.value.passes

\* value is not below min_value (when present) and not above max_value (when present)
InRange(c, v) ==
    /\ c.min_value = None \/ Cmp(v, c.min_value) # "lt"
    /\ c.max_value = None \/ Cmp(v, c.max_value) # "gt"

Hits(cs, v) == {i \in 1..Len(cs) : InRange(cs[i], v)}

FirstHit(cs, v) == CHOOSE i \in Hits(cs, v) : \A j \in Hits(cs, v) : i <= j

\* C6: for a Filter with classifications, the result's classification is the
\* description of the first range of the list that contains the value, and is
\* absent when none does; a range contains a value iff the value is not below
\* its min_value and not above its max_value, each when present.
C6_FirstContainingRange ==
    (/\ Applies("get_result")
     /\ filter_out.out.ok
     /\ filter_obj.classifications # <<>>) =>
        LET value == calculate(filter_obj, income_df).value
            cs == filter_obj.classifications
        IN  /\ "classification" \in DOMAIN filter_out.out.value
            /\ filter_out.out.value.classification
                   = IF Hits(cs, value) = {} THEN NoneStr
                     ELSE cs[FirstHit(cs, value)].description
            /\ \A i \in 1..Len(cs) :
                  /\ contains(cs[i], value) <=> InRange(cs[i], value)
                  /\ (cs[i].min_value = None /\ Cmp(value, cs[i].max_value) \in {"lt", "eq"})
                        => contains(cs[i], value)
                  /\ (cs[i].max_value = None /\ Cmp(value, cs[i].min_value) \in {"gt", "eq"})
                        => contains(cs[i], value)

C6_Witness ==
    /\ Applies("get_result")
    /\ filter_out.out.ok
    /\ filter_obj.classifications # <<>>
    /\ Cardinality(Hits(filter_obj.classifications, filter_out.out.value.value)) = 2
    /\ filter_out.out.value.classification = filter_obj.classifications[1].description

\* every quarter of the table has the key
AllHave(df, key) == \A i \in 1..Len(df.rows) : key \in DOMAIN df.rows[i]

\* the mean of num / den over all quarters, a quarter with den = 0 counted as 0
MeanZeroForZeroDen(df, num, den) ==
    FDiv(SumSeq([i \in 1..Len(df.rows) |->
                    IF df.rows[i][den] = 0 THEN Rat(0, 1)
                    ELSE Rat(df.rows[i][num], df.rows[i][den])]),
         Rat(Len(df.rows), 1))

\* C7: in a ratio filter's calculate, a quarter whose denominator field is
\* present and exactly 0 contributes exactly 0 to the mean: over a table with
\* such a quarter among others the result is the finite mean that counts the
\* quarter as 0.
C7_ZeroDenominatorCountsAsZero ==
    (/\ Applies("calculate")
     /\ filter_obj.rule.kind = "ratio"
     /\ AllHave(income_df, filter_obj.rule.num)
     /\ AllHave(income_df, filter_obj.rule.den)
     /\ \E i \in 1..Len(income_df.rows) : income_df.rows[i][filter_obj.rule.den] = 0
     /\ \E i \in 1..Len(income_df.rows) : income_df.rows[i][filter_obj.rule.den] # 0) =>
        /\ filter_out.out.ok
        /\ filter_out.out.value
               = MeanZeroForZeroDen(income_df, filter_obj.rule.num, filter_obj.rule.den)

\* the table without its quarter i
WithoutRow(df, i) ==
    DataFrame([j \in 1..(Len(df.rows) - 1) |-> df.rows[IF j < i THEN j ELSE j + 1]])

\* C8: in every catalogue filter that divides by a field, a quarter that lacks
\* the denominator field, in a table whose other quarters have it, is left
\* out: calculate returns the statistic over the remaining quarters, and
\* neither fails nor returns an undefined value.
C8_MissingDenominatorExcluded ==
    (/\ Applies("calculate")
     /\ filter_obj.rule.kind \in {"ratio", "trend", "cv"}) =>
        \A i \in 1..Len(income_df.rows) :
            LET den == filter_obj.rule.den
                rest == WithoutRow(income_df, i)
                over_rest == calculate(filter_obj, rest)
            IN  (/\ den \notin DOMAIN income_df.rows[i]
                 /\ AllHave(rest, den)
                 /\ over_rest.ok
                 /\ IsFinite(over_rest.value)) =>
                    /\ filter_out.out.ok
                    /\ filter_out.out.value = over_rest.value

\* C9: over a non-empty table the quarterly series has one entry per quarter,
\* in table order, and the label of an entry is "{calendarYear}-{period}" of its
\* quarter when the quarter has both fields, and absent when it lacks either
\* (stated for the tables on which the series is built).
C9_SeriesOnePointPerQuarter ==
    (/\ Applies("get_quarterly_data")
     /\ income_df.rows # <<>>
     /\ ~filter_out.out.is_none) =>
        /\ Len(filter_out.out.points) = Len(income_df.rows)
        /\ \A i \in 1..Len(income_df.rows) :
              LET q == income_df.rows[i]
              IN  filter_out.out.points[i].label
                      = IF "calendarYear" \in DOMAIN q /\ "period" \in DOMAIN q
                        THEN <<q.calendarYear, "-", q.period>>
                        ELSE <<>>

(***************************************************************************)
(* get_company_data on long statements: the provider's list holds the      *)
(* quarters numbered newest + count - 1 down to newest ... the quarter of  *)
(* number k is the k-th quarter since the first quarter of 2000.           *)
(***************************************************************************)
NumberedQuarter(k) ==
    [QFull EXCEPT !.revenue = k,
                  !.calendarYear = ToString(2000 + (k \div 4)),
                  !.period = <<"Q1", "Q2", "Q3", "Q4">>[(k % 4) + 1]]

\* count quarters, newest first, the oldest of which has the number oldest
NewestFirst(count, oldest) ==
    [i \in 1..count |-> NumberedQuarter(oldest + count - i)]

InitData ==
    /\ profile_response = JsonList(<<ProfileTech>>)
    /\ \E count \in 0..(n_quarters + ExtraQuarters), oldest \in 0..ExtraQuarters :
          income_response = JsonList(NewestFirst(count, oldest))
    /\ filters = NoFilters
    /\ results = Idle
    /\ income_df = DataFrame(<<>>)
    /\ filter_obj = NoFilter
    /\ filter_out = Idle
    /\ catalogue = AVAILABLE_FILTERS
    /\ default_filters = DEFAULT_FILTERS
    /\ calls = NoCalls
    /\ notebook = NoNotebookCall

\* analyzer.get_company_data(ticker)
GetCompanyData ==
    /\ results = Idle
    /\ results' = Done(get_company_data(profile_response, income_response))
    /\ UNCHANGED shared
    /\ UNCHANGED <<profile_response, income_response, filters, income_df,
                   filter_obj, filter_out>>
    /\ UNCHANGED notebook

NextData == GetCompanyData

SpecData == InitData /\ [][NextData]_vars

\* the smaller of two numbers
Min(a, b) == IF a < b THEN a ELSE b

\* C10: the table of the orchestrator is the first min(40, n) records of the
\* source's newest-first list of n records, reversed: at most 40 entries, the
\* most recent quarters, ordered oldest to newest.
C10_TableIsNewestFortyOldestFirst ==
    (Called /\ income_response.kind = "list") =>
        LET source == income_response.items
            table == results.out.value.income_statement
            m == Min(40, Len(source))
        IN  /\ results.out.ok
            /\ Len(table) = m
            /\ Len(table) <= 40
            /\ \A i \in 1..m : table[i] = source[m + 1 - i]
            /\ \A i \in 1..m : \E j \in 1..m : table[i] = source[j]
            /\ \A i \in 1..(m - 1) : table[i].revenue < table[i + 1].revenue
            /\ m > 0 => table[m] = source[1]

C10_Witness ==
    /\ Called
    /\ results.out.ok
    /\ Len(income_response.items) > 40
    /\ Len(results.out.value.income_statement) = 40
    /\ results.out.value.income_statement[40] = income_response.items[1]

(***************************************************************************)
(* Properties of the two mappings of an AnalysisResult                     *)
(***************************************************************************)
\* the keys of a dict, as a set
KeySet(d) == {d.keys[i] : i \in 1..Len(d.keys)}

\* the requested catalogued ids whose quarterly series cannot be built on the
\* table of the analysis
SeriesUnbuildable ==
    {id \in AvailableIds :
        /\ \E i \in 1..Len(RequestedIds) : RequestedIds[i] = id
        /\ get_quarterly_data(AVAILABLE_FILTERS[id], AnalysisTable).is_none}

\* in every AnalysisResult the keys of quarterly_data are keys of filters
SeriesKeysAmongFilterKeys ==
    ReturnsResult =>
        KeySet(results.out.value.quarterly_data) \subseteq KeySet(results.out.value.filters)

\* C11: when the quarterly series of a requested filter cannot be built, the
\* analysis still returns an AnalysisResult, in which the filter has no entry
\* in quarterly_data and has its scalar result in filters; and in every
\* AnalysisResult the keys of quarterly_data are a subset of the keys of filters.
C11_SeriesFailureKeepsScalar ==
    /\ (Called /\ Resolvable /\ SeriesUnbuildable # {}) =>
          /\ ReturnsResult
          /\ \A id \in SeriesUnbuildable :
                /\ ~InDict(results.out.value.quarterly_data, id)
                /\ InDict(results.out.value.filters, id)
    /\ SeriesKeysAmongFilterKeys

\* C12: without a filter list (None) analyze_company evaluates the default
\* list, in its order: gross_profit_ratio, sga_ratio, rd_ratio,
\* depreciation_ratio, interest_ratio, net_income_ratio, each of them in the
\* catalogue; a list that is given, the empty list included, is evaluated as
\* given.
C12_DefaultListOnlyWhenAbsent ==
    /\ DEFAULT_FILTERS = <<"gross_profit_ratio", "sga_ratio", "rd_ratio",
                           "depreciation_ratio", "interest_ratio", "net_income_ratio">>
    /\ \A i \in 1..Len(DEFAULT_FILTERS) : DEFAULT_FILTERS[i] \in DOMAIN AVAILABLE_FILTERS
    /\ (Called /\ filters.is_none) =>
          results.out = analyze_company(profile_response, income_response,
                                        FilterList(DEFAULT_FILTERS))
    /\ (ReturnsResult /\ filters.is_none) =>
          results.out.value.filters.keys = DEFAULT_FILTERS
    /\ (ReturnsResult /\ ~filters.is_none) =>
          /\ results.out.value.filters.keys = FirstListings(SelectSeq(filters.ids, IsKnown))
          /\ filters.ids = <<>> => results.out.value.filters = NewDict

C12_Witness ==
    /\ ReturnsResult
    /\ filters.is_none
    /\ AnalysisTable.rows # <<>>
    /\ results.out.value.filters.keys = DEFAULT_FILTERS
    /\ results.out.value.quarterly_data.keys = DEFAULT_FILTERS

\* an empty list that is given is evaluated as the empty list
C12_EmptyListWitness ==
    /\ ReturnsResult
    /\ filters = FilterList(<<>>)
    /\ AnalysisTable.rows # <<>>
    /\ results.out.value.filters = NewDict

(***************************************************************************)
(* Several invocations of analyze_company in one process (one session of   *)
(* the page each): they share the module-level AVAILABLE_FILTERS and       *)
(* DEFAULT_FILTERS, and each has its own locals.  An invocation advances   *)
(* one turn of its loop at a time, and the turns of the invocations        *)
(* interleave.  With filters = None the local filters is the list          *)
(* DEFAULT_FILTERS itself, not a copy.                                     *)
(***************************************************************************)
\* one turn of the loop, on the catalogue as it is at that moment
LoopTurn(available, acc, filter_name, df) ==
    IF filter_name \notin DOMAIN available THEN Returned(acc)
    ELSE LET f == available[filter_name]
             filter_result == get_result(f, df)
             quarterly_data == get_quarterly_data(f, df)
         IN  IF ~filter_result.ok THEN filter_result
             ELSE Returned(
                    [acc EXCEPT
                       !.filters = DictSet(@, filter_name, filter_result.value),
                       !.quarterly_data =
                           IF quarterly_data.is_none THEN @
                           ELSE DictSet(@, filter_name, quarterly_data.points)])

\* a loop that takes each id off the list it iterates
ListConsumed(list) == Tail(list)

\* the list after a turn of "for filter_name in filters": as it was
ListAfterTurn(list) == list

SharedProfiles == {JsonList(<<ProfileTech>>), JsonList(<<>>)}

SharedIncomes == {JsonList(<<QFull>>), JsonList(<<QNext, QFull>>), JsonList(<<QNoDen>>)}

SharedRequests ==
    {NoFilters, FilterList(<<>>),
     FilterList(<<"sga_ratio", "not_a_real_filter", "gross_profit_ratio">>),
     FilterList(<<"industry_interest", "revenue_trend">>)}

\* an invocation that ended: its arguments and what it returned or raised
Finished(c, outcome) ==
    [pc |-> "done", profile |-> c.profile, income |-> c.income,
     request |-> c.request, during |-> c.during, out |-> outcome]

\* the list the loop of an invocation iterates
LoopList(c) == IF c.aliased THEN default_filters ELSE c.own

\* analyze_company up to the loop (during: where the other invocations stand)
Begin(p) ==
    /\ calls[p].pc = "idle"
    /\ \E profile \in SharedProfiles, income \in SharedIncomes, request \in SharedRequests :
          LET company_data == get_company_data(profile, income)
              info == company_data.value.company_info
              c == [profile |-> profile, income |-> income, request |-> request,
                    during |-> {calls[q].pc : q \in Invocations \ {p}}]
          IN  calls' = [calls EXCEPT ![p] =
                  IF ~company_data.ok THEN Finished(c, company_data)
                  ELSE IF DOMAIN company_data.value = {}
                  THEN Finished(c, Returned([error |-> "Company not found"]))
                  ELSE IF "companyName" \notin DOMAIN info \/ "sector" \notin DOMAIN info
                  THEN Finished(c, Raised("KeyError"))
                  ELSE c @@ [pc |-> "loop",
                             aliased |-> request.is_none,
                             own |-> request.ids,
                             pos |-> 1,
                             df |-> DataFrame(company_data.value.income_statement),
                             acc |-> [company_name |-> info.companyName,
                                      sector |-> info.sector,
                                      filters |-> NewDict,
                                      quarterly_data |-> NewDict]]]
    /\ UNCHANGED <<catalogue, default_filters>>
    /\ UNCHANGED <<profile_response, income_response, filters, results,
                   income_df, filter_obj, filter_out>>
    /\ UNCHANGED notebook

\* an invocation after a turn: the exception of the turn ends it
AfterTurn(c, turn) ==
    IF ~turn.ok THEN Finished(c, turn)
    ELSE [c EXCEPT !.acc = turn.value,
                   !.pos = @ + 1,
                   !.own = IF c.aliased THEN @ ELSE ListAfterTurn(@)]

\* one turn of the loop of an invocation
Turn(p) ==
    /\ calls[p].pc = "loop"
    /\ calls[p].pos <= Len(LoopList(calls[p]))
    /\ calls' = [calls EXCEPT ![p] =
                    AfterTurn(@, LoopTurn(catalogue, @.acc, LoopList(@)[@.pos], @.df))]
    /\ default_filters' =
           IF calls[p].aliased THEN ListAfterTurn(default_filters) ELSE default_filters
    /\ UNCHANGED catalogue
    /\ UNCHANGED <<profile_response, income_response, filters, results,
                   income_df, filter_obj, filter_out>>
    /\ UNCHANGED notebook

\* the end of the loop: return results
Return(p) ==
    /\ calls[p].pc = "loop"
    /\ calls[p].pos > Len(LoopList(calls[p]))
    /\ calls' = [calls EXCEPT ![p] = Finished(calls[p], Returned(calls[p].acc))]
    /\ UNCHANGED <<catalogue, default_filters>>
    /\ UNCHANGED <<profile_response, income_response, filters, results,
                   income_df, filter_obj, filter_out>>
    /\ UNCHANGED notebook

\* the caller is done with the result: the invocation can be made again
Forget(p) ==
    /\ calls[p].pc = "done"
    /\ calls' = [calls EXCEPT ![p] = [pc |-> "idle"]]
    /\ UNCHANGED <<catalogue, default_filters>>
    /\ UNCHANGED <<profile_response, income_response, filters, results,
                   income_df, filter_obj, filter_out>>
    /\ UNCHANGED notebook

InitShared ==
    /\ catalogue = AVAILABLE_FILTERS
    /\ default_filters = DEFAULT_FILTERS
    /\ calls = NoCalls
    /\ profile_response = HttpException
    /\ income_response = HttpException
    /\ filters = NoFilters
    /\ results = Idle
    /\ income_df = DataFrame(<<>>)
    /\ filter_obj = NoFilter
    /\ filter_out = Idle
    /\ notebook = NoNotebookCall

NextShared == \E p \in Invocations : Begin(p) \/ Turn(p) \/ Return(p) \/ Forget(p)

SpecShared == InitShared /\ [][NextShared]_vars

\* C13: whatever invocations of analyze_company ran or are running, one
\* after another or interleaved, the catalogue and the default list are as
\* they were at startup, and an invocation that ended returned (or raised)
\* what it returns when it runs alone on the same source data.
C13_NoSharedMutableState ==
    /\ catalogue = AVAILABLE_FILTERS
    /\ default_filters = DEFAULT_FILTERS
    /\ \A p \in Invocations :
          calls[p].pc = "done" =>
              calls[p].out = analyze_company(calls[p].profile, calls[p].income,
                                             calls[p].request)

C13_Witness ==
    /\ calls[1].pc = "done" /\ calls[2].pc = "done"
    /\ "loop" \in calls[2].during
    /\ calls[1].request.is_none /\ calls[2].request.is_none
    /\ calls[1].out.ok /\ calls[2].out.ok
    /\ calls[1].income # calls[2].income
    /\ calls[1].out.value.filters.keys = DEFAULT_FILTERS
    /\ calls[2].out.value.filters.keys = DEFAULT_FILTERS

(***************************************************************************)
(* Properties of the results of single filters in an AnalysisResult        *)
(***************************************************************************)
\* the result of the industry-adjusted interest filter in the AnalysisResult
IndustryEntry == results.out.value.filters.at["industry_interest"]

HasIndustryEntry ==
    ReturnsResult /\ InDict(results.out.value.filters, "industry_interest")

\* the profiles of the companies the source resolves
ResolvedProfiles == {r \in ProfileResponses : get_company_profile(r) # EmptyDict}

\* C14: the result of the industry-adjusted interest filter does not depend on
\* the sector of the company: for every sector ("Consumer Goods" and
\* "Financials" included) passes is value <= 0.20, the threshold text is the
\* one of 20%, and the result has no classification and no guidelines; the same
\* statements give the same result under every other profile.
C14_IndustryFilterIgnoresSector ==
    HasIndustryEntry =>
        /\ DOMAIN IndustryEntry = {"value", "description", "passes", "threshold"}
        /\ IndustryEntry.value
               = MeanOfRatio(AnalysisTable, "interestExpense", "operatingIncome").value
        /\ IndustryEntry.passes <=> Cmp(IndustryEntry.value, Rat(20, 100)) \in {"lt", "eq"}
        /\ IndustryEntry.threshold = <<"<= ", 20, "%">>
        /\ \A other \in ResolvedProfiles :
              LET again == analyze_company(other, income_response,
                                           FilterList(<<"industry_interest">>))
              IN  /\ again.ok
                  /\ again.value.filters.at["industry_interest"] = IndustryEntry

\* a bank whose ratio fails the default 20% although it is under the 30% of
\* "Financials"
C14_Witness ==
    /\ HasIndustryEntry
    /\ results.out.value.sector = "Financials"
    /\ Cmp(IndustryEntry.value, Rat(20, 100)) = "gt"
    /\ Cmp(IndustryEntry.value, Rat(30, 100)) = "lt"
    /\ ~IndustryEntry.passes

\* a consumer-goods company whose ratio passes the default 20% although it is
\* over the 15% of "Consumer Goods"
C14_ConsumerGoodsWitness ==
    /\ HasIndustryEntry
    /\ results.out.value.sector = "Consumer Goods"
    /\ Cmp(IndustryEntry.value, Rat(15, 100)) = "gt"
    /\ IndustryEntry.passes

(***************************************************************************)
(* Properties of get_result                                                *)
(***************************************************************************)
\* get_result of the base class was applied and returned
BaseResultReturned ==
    /\ Applies("get_result")
    /\ filter_out.out.ok
    /\ filter_obj.cls # "IndustryAdjustedInterestFilter"

HasText(t) == t # NoneStr /\ t # ""

\* C15: the result of the base get_result always has value and description;
\* it has passes and threshold exactly when the filter has a threshold (0.0 is
\* a threshold), the threshold being the explicit text when the filter has one;
\* it has classification exactly when the list of classifications is not
\* empty, and guidelines exactly when the filter has a guideline text.
C15_ResultShape ==
    BaseResultReturned =>
        LET r == filter_out.out.value
            f == filter_obj
        IN  /\ {"value", "description"} \subseteq DOMAIN r
            /\ DOMAIN r \subseteq {"value", "description", "passes", "threshold",
                                   "classification", "guidelines"}
            /\ r.value = calculate(f, income_df).value
            /\ r.description = f.description
            /\ "passes" \in DOMAIN r <=> f.threshold # None
            /\ "threshold" \in DOMAIN r <=> f.threshold # None
            /\ (f.threshold # None /\ HasText(f.threshold_text)) =>
                   r.threshold = <<f.threshold_text>>
            /\ (f.threshold # None /\ ~HasText(f.threshold_text)) =>
                   r.threshold = <<f.comparison, " ", (f.threshold.n * 100) \div f.threshold.d, "%">>
            /\ "classification" \in DOMAIN r <=> f.classifications # <<>>
            /\ "guidelines" \in DOMAIN r <=> HasText(f.guidelines)
            /\ HasText(f.guidelines) => r.guidelines = f.guidelines

C15_Witness ==
    /\ BaseResultReturned
    /\ filter_obj = RevenueTrendFilter
    /\ filter_obj.threshold = Rat(0, 1)
    /\ DOMAIN filter_out.out.value = {"value", "description", "passes", "threshold"}
    /\ filter_out.out.value.threshold = <<"Positive growth">>
    /\ filter_out.out.value.passes

\* the sum of an integer field over the quarters of a table that all have it
RECURSIVE FieldTotal(_, _)
FieldTotal(rows, field) ==
    IF rows = <<>> THEN 0 ELSE rows[1][field] + FieldTotal(Tail(rows), field)

\* C16: on the four quarters with grossProfitRatio = 0.5, 0.45, 0.55, 0.40 the
\* gross-profit filter's calculate returns 0.475, its result passes (threshold
\* 0.4 with >=) and is classified "Durable competitive advantage"; on every
\* table calculate is the arithmetic mean of grossProfitRatio over the quarters.
C16_GrossProfitScenario ==
    /\ (Applies("get_result") /\ filter_obj = GrossProfitRatioFilter
        /\ income_df = ScenarioTable) =>
          /\ filter_out.out.ok
          /\ filter_obj.threshold = Rat(4, 10) /\ filter_obj.comparison = ">="
          /\ filter_out.out.value.value = [k |-> "num", n |-> 19, d |-> 40]
          /\ filter_out.out.value.passes
          /\ filter_out.out.value.classification = "Durable competitive advantage"
    /\ (Applies("calculate") /\ filter_obj = GrossProfitRatioFilter
        /\ income_df.rows # <<>> /\ AllHave(income_df, "grossProfitRatio")) =>
          /\ filter_out.out.ok
          /\ filter_out.out.value.k = "num"
          /\ filter_out.out.value.n * 100 * Len(income_df.rows)
                 = filter_out.out.value.d * FieldTotal(income_df.rows, "grossProfitRatio")
          /\ income_df = ScenarioTable => filter_out.out.value.n * 1000 = 475 * filter_out.out.value.d

C16_Witness ==
    /\ Applies("get_result")
    /\ filter_obj = GrossProfitRatioFilter
    /\ Len(income_df.rows) = 4
    /\ [i \in 1..4 |-> income_df.rows[i].grossProfitRatio] = <<50, 45, 55, 40>>
    /\ filter_out.out.ok
    /\ filter_out.out.value.value = [k |-> "num", n |-> 475, d |-> 1000]
           \/ filter_out.out.value.value = [k |-> "num", n |-> 19, d |-> 40]
    /\ filter_out.out.value.passes
    /\ filter_out.out.value.classification = "Durable competitive advantage"

\* get_result was applied to a catalogue filter with classifications and
\* returned a result whose value is a number
ClassifiedNumber ==
    /\ Applies("get_result")
    /\ filter_out.out.ok
    /\ filter_obj \in CatalogueFilters
    /\ filter_obj.classifications # <<>>
    /\ filter_out.out.value.value.k = "num"

\* every number is in some range of a catalogue list: the classification of a
\* number is never absent
C17_RangesExhaustive ==
    ClassifiedNumber =>
        /\ Hits(filter_obj.classifications, filter_out.out.value.value) # {}
        /\ filter_out.out.value.classification # NoneStr

\* C17: in every catalogue filter with classifications a number is contained
\* in exactly one range of the list, so that its classification is the same
\* in whatever order the ranges are tried, and is never absent.
C17_RangesExclusiveAndExhaustive ==
    ClassifiedNumber =>
        /\ Cardinality(Hits(filter_obj.classifications, filter_out.out.value.value)) = 1
        /\ filter_out.out.value.classification
               = LastContaining(filter_obj.classifications, filter_out.out.value.value)
        /\ filter_out.out.value.classification # NoneStr

(***************************************************************************)
(* analysis_utils.py: compute_quarterly_metric_by_key.  A row of           *)
(* income_statements_df is a company, a cell of the row is the dict of a   *)
(* quarter or None; snp_data gives the name of the company of each row.    *)
(***************************************************************************)
\* a cell that is None
NoneCell == [is_none |-> TRUE]

\* a quarter that lacks the numerator field of the SGA ratio
QNoNum == WithoutKeys(QFull, {"sellingGeneralAndAdministrativeExpenses"})

\* key: one field name, or a pair (num_key, den_key)
StrKey(name) == [is_str |-> TRUE, name |-> name, num_key |-> "", den_key |-> ""]

RatioKey(num_key, den_key) ==
    [is_str |-> FALSE, name |-> "", num_key |-> num_key, den_key |-> den_key]

\* quarter.get(key): None where the dict has no such key
DictGet(quarter, key) == IF key \in DOMAIN quarter THEN Cell(quarter, key) ELSE None

\* the entry of a quarter in the ratio case: None / den raises TypeError,
\* which the except clause turns into 0
RatioEntry(num, den) ==
    IF den # None /\ den.n = 0 THEN Rat(0, 1)
    ELSE IF den = None THEN None
    ELSE IF num = None THEN Rat(0, 1)
    ELSE FDiv(num, den)

\* what one quarter appends to vals
QuarterEntry(quarter, key) ==
    IF key.is_str THEN DictGet(quarter, key.name)
    ELSE RatioEntry(DictGet(quarter, key.num_key), DictGet(quarter, key.den_key))

\* the inner loop: vals of the cells, the cells that are None skipped
RECURSIVE RowVals(_, _)
RowVals(cells, key) ==
    IF cells = <<>> THEN <<>>
    ELSE IF Head(cells) = NoneCell THEN RowVals(Tail(cells), key)
    ELSE <<QuarterEntry(Head(cells), key)>> \o RowVals(Tail(cells), key)

\* padding with None after the values
PadBack(vals, n) ==
    IF Len(vals) < n THEN vals \o [i \in 1..(n - Len(vals)) |-> None] ELSE vals

\* vals = [None] * (n_quarters - len(vals)) + vals
PadFront(vals, n) ==
    IF Len(vals) < n THEN [i \in 1..(n - Len(vals)) |-> None] \o vals ELSE vals

\* the names of the companies, in sorted order
CompanyNames == <<"AAPL", "MSFT">>

\* df[sorted(df.columns)]: the columns of the dict in sorted order
SortedColumns(metrics) == SelectSeq(CompanyNames, LAMBDA c : InDict(metrics, c))

\* the outer loop, from row i on: metrics[company] = vals
RECURSIVE MetricsFrom(_, _, _, _, _, _)
MetricsFrom(i, rows, names, key, n, metrics) ==
    IF i > Len(rows) THEN metrics
    ELSE MetricsFrom(i + 1, rows, names, key, n,
             DictSet(metrics, names[i], PadFront(RowVals(Take(rows[i], n), key), n)))

compute_quarterly_metric_by_key(rows, names, key, n) ==
    [columns |-> SortedColumns(MetricsFrom(1, rows, names, key, n, NewDict)),
     at |-> MetricsFrom(1, rows, names, key, n, NewDict).at]

CellPool == {NoneCell, QFull, QNext, QZeroDen, QNoDen, QNoNum}

\* the tables of one or two companies, with the same number of cells in each row
StatementTables ==
    {<<r>> : r \in SeqsUpTo(CellPool, MaxCells)}
    \cup {<<r, s>> : r \in SeqsUpTo(CellPool, MaxCells),
                     s \in SeqsUpTo({NoneCell, QNext}, MaxCells)}

KeyPool ==
    {StrKey("grossProfitRatio"),
     RatioKey("sellingGeneralAndAdministrativeExpenses", "grossProfit")}

InitMetric ==
    /\ \E rows \in {t \in StatementTables : \A i \in 1..Len(t) : Len(t[i]) = Len(t[1])},
          key \in KeyPool, n \in 0..MaxN :
          notebook = [state |-> "called", rows |-> rows,
                      names |-> SubSeq(CompanyNames, 1, Len(rows)),
                      key |-> key, n |-> n]
    /\ profile_response = HttpException
    /\ income_response = HttpException
    /\ filters = NoFilters
    /\ results = Idle
    /\ income_df = DataFrame(<<>>)
    /\ filter_obj = NoFilter
    /\ filter_out = Idle
    /\ catalogue = AVAILABLE_FILTERS
    /\ default_filters = DEFAULT_FILTERS
    /\ calls = NoCalls

\* compute_quarterly_metric_by_key(income_statements_df, snp_data, key, n_quarters)
ComputeMetric ==
    /\ notebook.state = "called"
    /\ notebook' = [notebook EXCEPT
                       !.state = "done"]
                   @@ [out |-> compute_quarterly_metric_by_key(
                                   notebook.rows, notebook.names, notebook.key, notebook.n)]
    /\ UNCHANGED <<profile_response, income_response, filters, results,
                   income_df, filter_obj, filter_out>>
    /\ UNCHANGED shared

NextMetric == ComputeMetric

SpecMetric == InitMetric /\ [][NextMetric]_vars

(***************************************************************************)
(* Properties of compute_quarterly_metric_by_key                           *)
(***************************************************************************)
Computed == notebook.state = "done"

\* the cells of row i that count: among the first n, those that are not None
CountedCells(i) ==
    SelectSeq(SubSeq(notebook.rows[i], 1, Min(notebook.n, Len(notebook.rows[i]))),
              LAMBDA cell : cell # NoneCell)

\* the column of the company of row i
ColumnOf(i) == notebook.out.at[notebook.names[i]]

C18_TruncationWitness ==
    /\ Computed
    /\ notebook.n = 2
    /\ notebook.key.is_str
    /\ notebook.rows[1] = <<NoneCell, QFull, QNext>>
    /\ ColumnOf(1) = <<None, Rat(50, 100)>>

\* the entry of a quarter is as the three cases of the ratio mode say: 0 for a
\* denominator equal to 0, None for an absent denominator, and otherwise the
\* quotient of the numerator field by the denominator field
EntryAsStated(entry, quarter, key) ==
    IF key.den_key \notin DOMAIN quarter THEN entry = None
    ELSE IF quarter[key.den_key] = 0 THEN entry = Rat(0, 1)
    ELSE /\ key.num_key \in DOMAIN quarter
         /\ entry.k = "num"
         /\ entry.n * quarter[key.den_key] = quarter[key.num_key] * entry.d

\* the three cases, for the quarters that have the numerator field
C19_RatioEntriesWithNumerator ==
    (Computed /\ ~notebook.key.is_str) =>
        \A i \in 1..Len(notebook.rows) :
            LET kept == CountedCells(i)
                lead == notebook.n - Len(kept)
            IN  \A j \in 1..Len(kept) :
                    notebook.key.num_key \in DOMAIN kept[j] =>
                        EntryAsStated(ColumnOf(i)[lead + j], kept[j], notebook.key)

\* C19: in ratio mode (key = (numerator, denominator)) no quarter raises, and
\* the entry of every quarter is 0 when its denominator equals 0, None when its
\* denominator is absent, and numerator / denominator otherwise.
C19_RatioEntries ==
    (Computed /\ ~notebook.key.is_str) =>
        \A i \in 1..Len(notebook.rows) :
            LET kept == CountedCells(i)
                lead == notebook.n - Len(kept)
            IN  \A j \in 1..Len(kept) :
                    EntryAsStated(ColumnOf(i)[lead + j], kept[j], notebook.key)

\* the catalogue filters with both a threshold and classifications
JudgedTwice ==
    {f \in CatalogueFilters : f.threshold # None /\ f.classifications # <<>>}

\* pass/fail and classification agree away from the threshold itself
C20_AgreeOffThreshold ==
    (ClassifiedNumber /\ filter_obj \in JudgedTwice
     /\ Cmp(filter_out.out.value.value, filter_obj.threshold) # "eq") =>
        (filter_out.out.value.passes
            <=> filter_out.out.value.classification
                    = filter_obj.classifications[1].description)

\* C20: for the catalogue filters with both a threshold and classifications
\* (gross_profit_ratio, sga_ratio, depreciation_ratio, net_income_ratio) and
\* every number, the threshold itself included, the result passes if and only
\* if its classification is the description of the first range of the list.
C20_PassesIffFirstRange ==
    /\ {f.name : f \in JudgedTwice}
           = {"gross_profit_ratio", "sga_ratio", "depreciation_ratio", "net_income_ratio"}
    /\ (ClassifiedNumber /\ filter_obj \in JudgedTwice) =>
          (filter_out.out.value.passes
              <=> filter_out.out.value.classification
                      = filter_obj.classifications[1].description)

(***************************************************************************)
(* Properties of the revenue-trend filter                                  *)
(***************************************************************************)
\* the sum of (revenue[i+1] - revenue[i]) / revenue[i] over the consecutive
\* quarters of rows that all have a revenue other than 0
RECURSIVE GrowthTotal(_)
GrowthTotal(rows) ==
    IF Len(rows) < 2 THEN Rat(0, 1)
    ELSE FAdd(Rat(rows[2].revenue - rows[1].revenue, rows[1].revenue),
              GrowthTotal(Tail(rows)))

\* every quarter of the table has a revenue, and none of them is 0
RevenueThroughout(df) ==
    \A i \in 1..Len(df.rows) :
        "revenue" \in DOMAIN df.rows[i] /\ df.rows[i].revenue # 0

====
